---- MODULE Spec2Model ----
(***************************************************************************)
(* State-machine model of the low-level IPC client of src/ipc.go:          *)
(* concurrent Exec calls, the write loop, the read loop with dispatch,     *)
(* the request map (pending table), the event-handler table and the        *)
(* client mutex.  The remote process and the timers are the environment.   *)
(*                                                                         *)
(* The socket's inbound direction is not buffered in the model: the read   *)
(* loop's ReadBytes step draws the next record from everything the remote  *)
(* process could have sent by then, which yields the same sequences of     *)
(* records as an explicit in-flight buffer.                                *)
(***************************************************************************)
EXTENDS Integers, Sequences, FiniteSets, TLC

\* ------------------------------------------------------------- bounds
NCalls == 2
MaxId == 1

Calls == 1..NCalls
\* rand.Intn(10000) draws from 0..9999; the model draws from 0..MaxId
Ids == 0..MaxId

\* ------------------------------------------------------------- inputs
\* Commands handed to Exec: a plain verb, the raw escape form, and a command
\* holding a value json.Marshal rejects.
Unmarshalable == "chan"
RawFragment == "frag"
Commands == { <<"stop">>, <<"raw", RawFragment>>, <<"set", Unmarshalable>> }

EventSeek == "seek"
EventIdle == "idle"
EventNames == {EventSeek, EventIdle}
\* the names the application registers a handler for
RegNames == {EventSeek}
Handlers == {"h1"}
\* error strings the remote process puts in a reply
RemoteErrs == {"success", "invalid parameter"}

ErrTimeoutSend == "Timeout while sending command"
ErrTimeoutRecv == "Timeout while receiving response"
\* the errors the code does not have; used only to state claims
ErrSend == "send error"
ErrConnectionLost == "connection lost"
NoErr == "nil"

VARIABLES
    pc,          \* pc[c]: position of Exec call c: idle, send, recv, done
    req,         \* req[c]: the request built by newRequest for call c
    ret,         \* ret[c]: what Exec returned: [res, err]
    respChan,    \* respChan[c]: contents of req.Response (capacity 1)
    wpc,         \* position of the write loop
    wreq,        \* call whose request the write loop holds (0: none)
    reqMap,      \* c.reqMap: RequestID -> request (named by its call)
    event,       \* c.event: event name -> handler
    mu,          \* c.mu: "free" or the holder
    rpc,         \* position of the read loop
    rresp,       \* the Response the read loop decoded
    rreq,        \* the request dispatch looked up (0: none)
    wire,        \* records written to the connection, in order
    hactive,     \* number of handler invocations that have not returned
    hpc,         \* position of the running handler: none, body, lock
    \* ---- history variables, read only by the properties
    registered,  \* calls whose request was ever put in reqMap
    removed,     \* removed[c]: how often c's request was deleted from reqMap
    delivered,   \* delivered[c]: how many replies were put in c's reply slot
    answered,    \* calls for whose id a reply was dispatched since registration
    resolved,    \* ids delivered by dispatch and not registered again since
    writeFailed, \* calls whose conn.Write returned an error
    eofSeen,     \* the read on the stream has returned EOF or a reset
    handed       \* the calls in the order of their handoff to the write loop

vars == << pc, req, ret, respChan, wpc, wreq, reqMap, event, mu, rpc, rresp,
           rreq, wire, hactive, hpc, registered, removed, delivered, answered,
           resolved, writeFailed, eofSeen, handed >>

hist == << registered, removed, delivered, answered, resolved, writeFailed,
           eofSeen, handed >>

\* ------------------------------------------------------------- data
NoReq == [Command |-> << >>, RequestID |-> 0, RawString |-> ""]
NoRet == [res |-> << >>, err |-> NoErr]
\* no bytes read
NoData == [json |-> FALSE, hasId |-> FALSE, id |-> 0, event |-> "",
           err |-> "", ans |-> 0]
\* var resp Response: Bytes is the copy of the record as read
NoResp == [Err |-> "", Event |-> "", RequestID |-> 0, ans |-> 0,
           Bytes |-> NoData]

\* newRequest(cmd...), with the id rand.Intn drew
newRequest(cmd, id) ==
    [ Command   |-> cmd,
      RequestID |-> id,
      RawString |-> IF Len(cmd) < 2 THEN ""
                    ELSE IF cmd[1] = "raw" THEN cmd[2] ELSE "" ]

\* json.Marshal(req) fails on a value it cannot encode
MarshalFails(r) == \E i \in 1..Len(r.Command) : r.Command[i] = Unmarshalable

\* Bytes are sequences of tokens: punctuation, keys with their colon,
\* decimal digits, and the text of a string.
Digits == <<"0", "1", "2", "3", "4", "5", "6", "7", "8", "9">>

\* %d, and json's encoding of an int
RECURSIVE Itoa(_)
Itoa(n) == IF n < 10 THEN <<Digits[n + 1]>>
           ELSE Itoa(n \div 10) \o <<Digits[(n % 10) + 1]>>

\* json's encoding of a string
Quote(str) == <<"\"", str, "\"">>

\* json's encoding of the elements of Command from index i on
RECURSIVE JsonElems(_, _)
JsonElems(cmd, i) ==
    IF i > Len(cmd) THEN << >>
    ELSE Quote(cmd[i]) \o (IF i < Len(cmd) THEN <<",">> ELSE << >>)
           \o JsonElems(cmd, i + 1)

JsonArray(cmd) == <<"[">> \o JsonElems(cmd, 1) \o <<"]">>

\* json.Marshal(req): the exported fields of request in declaration order,
\* Command as "command", RequestID as "request_id", Response left out by its
\* tag "-", RawString, which has no tag, under its own name
Marshal(r) ==
    <<"{", "\"command\":">> \o JsonArray(r.Command)
      \o <<",", "\"request_id\":">> \o Itoa(r.RequestID)
      \o <<",", "\"RawString\":">> \o Quote(r.RawString)
      \o <<"}">>

\* fmt.Sprintf("{%s,\"%s\":%d}\n", req.RawString, "request_id", req.RequestID)
RawRecord(r) ==
    <<"{", r.RawString, ",", "\"request_id\":">> \o Itoa(r.RequestID)
      \o <<"}", "\n">>

\* the bytes the write loop puts on the connection for request r of call c
\* (call is not part of the bytes: it names the request the record came from)
Encode(r, c) ==
    [ bytes |-> IF Len(r.Command) > 1 /\ r.Command[1] = "raw"
                THEN RawRecord(r)
                ELSE Marshal(r) \o <<"\n">>,
      call  |-> c ]

\* the remote process reads the request_id of a record: the digits behind
\* the last "request_id" key
DigitVal(t) == (CHOOSE k \in 1..10 : Digits[k] = t) - 1
IsDigit(t) == \E k \in 1..10 : Digits[k] = t
RECURSIVE Atoi(_, _, _)
Atoi(b, i, acc) ==
    IF i <= Len(b) /\ IsDigit(b[i]) THEN Atoi(b, i + 1, 10 * acc + DigitVal(b[i]))
    ELSE acc
RemoteRequestId(b) ==
    LET keys == {k \in 1..Len(b) : b[k] = "\"request_id\":"}
        last == CHOOSE k \in keys : \A j \in keys : j <= k
    IN Atoi(b, last + 1, 0)

\* json.Unmarshal into Response: absent fields keep their zero value
Decode(m) ==
    [ Err       |-> m.err,
      Event     |-> m.event,
      RequestID |-> IF m.hasId THEN m.id ELSE 0,
      ans       |-> m.ans,
      Bytes     |-> m ]

\* Records the remote process can have sent: a reply to a record on the
\* wire (ans names the call whose request it answers), a reply nobody asked
\* for, an event, a record with neither request_id nor event, and a record
\* that is not well-formed JSON (json is FALSE).
RemoteReplies ==
    { [json |-> TRUE, hasId |-> TRUE, id |-> RemoteRequestId(wire[i].bytes),
       event |-> "", err |-> e,
       ans |-> wire[i].call] : i \in 1..Len(wire), e \in RemoteErrs }
RemoteUnsolicited ==
    { [json |-> TRUE, hasId |-> TRUE, id |-> i, event |-> "", err |-> "success", ans |-> 0]
        : i \in Ids }
RemoteEvents ==
    { [json |-> TRUE, hasId |-> FALSE, id |-> 0, event |-> n, err |-> "", ans |-> 0]
        : n \in EventNames }
RemoteBare ==
    { [json |-> TRUE, hasId |-> FALSE, id |-> 0, event |-> "", err |-> "",
       ans |-> 0] }
RemoteMalformed ==
    { [json |-> FALSE, hasId |-> FALSE, id |-> 0, event |-> "", err |-> "",
       ans |-> 0] }
RemoteRecords == RemoteReplies \cup RemoteUnsolicited \cup RemoteEvents
                   \cup RemoteBare \cup RemoteMalformed

\* map helpers
MapPut(m, k, v) == [x \in DOMAIN m \cup {k} |-> IF x = k THEN v ELSE m[x]]
MapDel(m, k) == [x \in DOMAIN m \ {k} |-> m[x]]
EmptyMap == [x \in {} |-> 0]

\* ------------------------------------------------------------- Init
Init ==
    /\ pc = [c \in Calls |-> "idle"]
    /\ req = [c \in Calls |-> NoReq]
    /\ ret = [c \in Calls |-> NoRet]
    /\ respChan = [c \in Calls |-> << >>]
    /\ wpc = "recv"
    /\ wreq = 0
    /\ reqMap = EmptyMap
    /\ event = EmptyMap
    /\ mu = "free"
    /\ rpc = "read"
    /\ rresp = NoResp
    /\ rreq = 0
    /\ wire = << >>
    /\ hactive = 0
    /\ hpc = "none"
    /\ registered = {}
    /\ removed = [c \in Calls |-> 0]
    /\ delivered = [c \in Calls |-> 0]
    /\ answered = {}
    /\ resolved = {}
    /\ writeFailed = {}
    /\ eofSeen = FALSE
    /\ handed = << >>

\* ------------------------------------------------------------- Exec
\* Exec: req := newRequest(command...), then the first select is entered
ExecStart(c) ==
    /\ pc[c] = "idle"
    /\ \E cmd \in Commands, id \in Ids :
          req' = [req EXCEPT ![c] = newRequest(cmd, id)]
    /\ pc' = [pc EXCEPT ![c] = "send"]
    /\ UNCHANGED << ret, respChan, wpc, wreq, reqMap, event, mu, rpc, rresp,
                    rreq, wire, registered, removed, delivered, answered,
                    resolved, writeFailed, eofSeen, handed, hactive, hpc >>

\* case c.comm <- req: the unbuffered channel hands the request to the write
\* loop's req, ok := <-c.comm
ExecHandoff(c) ==
    /\ pc[c] = "send"
    /\ wpc = "recv"
    /\ pc' = [pc EXCEPT ![c] = "recv"]
    /\ wreq' = c
    /\ wpc' = "marshal"
    /\ handed' = Append(handed, c)
    /\ UNCHANGED << req, ret, respChan, reqMap, event, mu, rpc, rresp, rreq,
                    wire, registered, removed, delivered, answered, resolved,
                    writeFailed, eofSeen, hactive, hpc >>

\* mutant: the send timer is also honoured after the handoff has happened
ExecTimeoutSend_AfterHandoff(c) ==
    /\ pc[c] \in {"send", "recv"}
    /\ pc' = [pc EXCEPT ![c] = "done"]
    /\ ret' = [ret EXCEPT ![c] = [res |-> << >>, err |-> ErrTimeoutSend]]
    /\ UNCHANGED << req, respChan, wpc, wreq, reqMap, event, mu, rpc, rresp,
                    rreq, wire, hist, hactive, hpc >>

\* case <-time.After(c.timeout): return nil, ErrTimeoutSend
ExecTimeoutSend(c) ==
    /\ pc[c] = "send"
    /\ pc' = [pc EXCEPT ![c] = "done"]
    /\ ret' = [ret EXCEPT ![c] = [res |-> << >>, err |-> ErrTimeoutSend]]
    /\ UNCHANGED << req, respChan, wpc, wreq, reqMap, event, mu, rpc, rresp,
                    rreq, wire, hist, hactive, hpc >>

\* mutant: a reply whose error field is not "success" is turned into an
\* error return
ExecRecv_RemoteErrAsError(c) ==
    /\ pc[c] = "recv"
    /\ respChan[c] # << >>
    /\ pc' = [pc EXCEPT ![c] = "done"]
    /\ ret' = [ret EXCEPT ![c] =
                 IF Head(respChan[c]).Err = "success"
                 THEN [res |-> <<Head(respChan[c])>>, err |-> NoErr]
                 ELSE [res |-> << >>, err |-> Head(respChan[c]).Err]]
    /\ respChan' = [respChan EXCEPT ![c] = Tail(respChan[c])]
    /\ UNCHANGED << req, wpc, wreq, reqMap, event, mu, rpc, rresp, rreq,
                    wire, hist, hactive, hpc >>

\* case res, ok := <-req.Response: return res, nil
ExecRecv(c) ==
    /\ pc[c] = "recv"
    /\ respChan[c] # << >>
    /\ pc' = [pc EXCEPT ![c] = "done"]
    /\ ret' = [ret EXCEPT ![c] = [res |-> <<Head(respChan[c])>>, err |-> NoErr]]
    /\ respChan' = [respChan EXCEPT ![c] = Tail(respChan[c])]
    /\ UNCHANGED << req, wpc, wreq, reqMap, event, mu, rpc, rresp, rreq,
                    wire, hist, hactive, hpc >>

\* mutant: the second select has no timeout case
ExecTimeoutRecv_NoTimer(c) ==
    /\ pc[c] = "recv"
    /\ FALSE
    /\ UNCHANGED vars

\* case <-time.After(c.timeout): return nil, ErrTimeoutRecv
ExecTimeoutRecv(c) ==
    /\ pc[c] = "recv"
    /\ pc' = [pc EXCEPT ![c] = "done"]
    /\ ret' = [ret EXCEPT ![c] = [res |-> << >>, err |-> ErrTimeoutRecv]]
    /\ UNCHANGED << req, respChan, wpc, wreq, reqMap, event, mu, rpc, rresp,
                    rreq, wire, hist, hactive, hpc >>

\* ------------------------------------------------------------- write loop
\* b, err := json.Marshal(req); err != nil: continue
WriteMarshalFail ==
    /\ wpc = "marshal"
    /\ MarshalFails(req[wreq])
    /\ wpc' = "recv"
    /\ wreq' = 0
    /\ UNCHANGED << pc, req, ret, respChan, reqMap, event, mu, rpc, rresp,
                    rreq, wire, hist, hactive, hpc >>

WriteMarshalOk ==
    /\ wpc = "marshal"
    /\ ~MarshalFails(req[wreq])
    /\ wpc' = "register"
    /\ UNCHANGED << pc, req, ret, respChan, wreq, reqMap, event, mu, rpc,
                    rresp, rreq, wire, hist, hactive, hpc >>

\* c.mu.Lock(); c.reqMap[req.RequestID] = req; c.mu.Unlock()
WriteRegister ==
    /\ wpc = "register"
    /\ mu = "free"
    /\ reqMap' = MapPut(reqMap, req[wreq].RequestID, wreq)
    /\ registered' = registered \cup {wreq}
    /\ answered' = answered \ {wreq}
    /\ resolved' = resolved \ {req[wreq].RequestID}
    /\ wpc' = "write"
    /\ UNCHANGED << pc, req, ret, respChan, wreq, event, mu, rpc, rresp,
                    rreq, wire, removed, delivered, writeFailed, eofSeen,
                    handed, hactive, hpc >>

\* mutant: the record goes in front of what is already queued for the wire
WriteOk_Prepend ==
    /\ wpc = "write"
    /\ wire' = <<Encode(req[wreq], wreq)>> \o wire
    /\ wpc' = "recv"
    /\ wreq' = 0
    /\ UNCHANGED << pc, req, ret, respChan, reqMap, event, mu, rpc, rresp,
                    rreq, hist, hactive, hpc >>

\* _, err = conn.Write(b) with err == nil
WriteOk ==
    /\ wpc = "write"
    /\ wire' = Append(wire, Encode(req[wreq], wreq))
    /\ wpc' = "recv"
    /\ wreq' = 0
    /\ UNCHANGED << pc, req, ret, respChan, reqMap, event, mu, rpc, rresp,
                    rreq, hist, hactive, hpc >>

\* _, err = conn.Write(b) with err != nil
WriteFail ==
    /\ wpc = "write"
    /\ wpc' = "cleanup"
    /\ writeFailed' = writeFailed \cup {wreq}
    /\ UNCHANGED << pc, req, ret, respChan, wreq, reqMap, event, mu, rpc,
                    rresp, rreq, wire, registered, removed, delivered,
                    answered, resolved, eofSeen, handed, hactive, hpc >>

\* c.mu.Lock(); delete(c.reqMap, req.RequestID); c.mu.Unlock()
WriteCleanup ==
    /\ wpc = "cleanup"
    /\ mu = "free"
    /\ LET id == req[wreq].RequestID IN
         /\ reqMap' = MapDel(reqMap, id)
         /\ removed' = IF id \in DOMAIN reqMap
                       THEN [removed EXCEPT ![reqMap[id]] = @ + 1]
                       ELSE removed
    /\ wpc' = "recv"
    /\ wreq' = 0
    /\ UNCHANGED << pc, req, ret, respChan, event, mu, rpc, rresp, rreq,
                    wire, registered, delivered, answered, resolved,
                    writeFailed, eofSeen, handed, hactive, hpc >>

\* ------------------------------------------------------------- read loop
\* data, err := rd.ReadBytes('\n') with err != nil (the stream failed
\* terminally: EOF or a reset, and every later read fails too): continue
ReadError ==
    /\ rpc = "read"
    /\ eofSeen' = TRUE
    /\ UNCHANGED << pc, req, ret, respChan, wpc, wreq, reqMap, event, mu,
                    rpc, rresp, rreq, wire, registered, removed, delivered,
                    answered, resolved, writeFailed, handed, hactive, hpc >>

\* data, err := rd.ReadBytes('\n') with err == nil; var resp Response;
\* resp.Bytes is set to a copy of data; err = json.Unmarshal(data, &resp).
\* With err == nil c.dispatch(&resp) is called next, else the continue.
\* (The steps are local to the read loop's goroutine and taken as one.)
ReadRecord ==
    /\ rpc = "read"
    /\ ~eofSeen
    /\ \E m \in RemoteRecords :
          IF m.json
          THEN rresp' = Decode(m) /\ rpc' = "dispatch"
          ELSE rresp' = [NoResp EXCEPT !.Bytes = m] /\ rpc' = "decode"
    /\ UNCHANGED << pc, req, ret, respChan, wpc, wreq, reqMap, event, mu,
                    rreq, wire, hist, hactive, hpc >>

\* mutant: the read loop returns when a record does not decode
ReadMalformed_Return ==
    /\ rpc = "decode"
    /\ ~rresp.Bytes.json
    /\ rpc' = "exit"
    /\ rresp' = NoResp
    /\ UNCHANGED << pc, req, ret, respChan, wpc, wreq, reqMap, event, mu,
                    rreq, wire, hist, hactive, hpc >>

\* json.Unmarshal has returned an error: continue
ReadMalformed ==
    /\ rpc = "decode"
    /\ ~rresp.Bytes.json
    /\ rpc' = "read"
    /\ rresp' = NoResp
    /\ UNCHANGED << pc, req, ret, respChan, wpc, wreq, reqMap, event, mu,
                    rreq, wire, hist, hactive, hpc >>

\* calls whose registered request carries id i
RegisteredWithId(i) == {c \in registered : req[c].RequestID = i}

\* mutant: the reply goes to any pending request, whatever its id
DispatchReply_AnyEntry ==
    /\ rpc = "dispatch"
    /\ mu = "free"
    /\ rresp.Event = ""
    /\ rresp.RequestID \in DOMAIN reqMap
    /\ \E k \in DOMAIN reqMap :
          /\ rreq' = reqMap[k]
          /\ reqMap' = MapDel(reqMap, k)
          /\ removed' = [removed EXCEPT ![reqMap[k]] = @ + 1]
    /\ answered' = answered \cup RegisteredWithId(rresp.RequestID)
    /\ resolved' = resolved \cup {rresp.RequestID}
    /\ mu' = "dispatch"
    /\ rpc' = "deliver"
    /\ UNCHANGED << pc, req, ret, respChan, wpc, wreq, event, rresp, wire,
                    registered, delivered, writeFailed, eofSeen, handed,
                    hactive, hpc >>

\* mutant: dispatch delivers without deleting the entry from reqMap
DispatchReply_NoDelete ==
    /\ rpc = "dispatch"
    /\ mu = "free"
    /\ rresp.Event = ""
    /\ rresp.RequestID \in DOMAIN reqMap
    /\ rreq' = reqMap[rresp.RequestID]
    /\ answered' = answered \cup RegisteredWithId(rresp.RequestID)
    /\ resolved' = resolved \cup {rresp.RequestID}
    /\ mu' = "dispatch"
    /\ rpc' = "deliver"
    /\ UNCHANGED << pc, req, ret, respChan, wpc, wreq, reqMap, event, rresp,
                    wire, registered, removed, delivered, writeFailed,
                    eofSeen, handed, hactive, hpc >>

\* dispatch: c.mu.Lock(); resp.Event == ""; req, ok := c.reqMap[id] with ok;
\* delete(c.reqMap, resp.RequestID).  The mutex stays held for the send.
DispatchReply ==
    /\ rpc = "dispatch"
    /\ mu = "free"
    /\ rresp.Event = ""
    /\ rresp.RequestID \in DOMAIN reqMap
    /\ rreq' = reqMap[rresp.RequestID]
    /\ reqMap' = MapDel(reqMap, rresp.RequestID)
    /\ removed' = [removed EXCEPT ![reqMap[rresp.RequestID]] = @ + 1]
    /\ answered' = answered \cup RegisteredWithId(rresp.RequestID)
    /\ resolved' = resolved \cup {rresp.RequestID}
    /\ mu' = "dispatch"
    /\ rpc' = "deliver"
    /\ UNCHANGED << pc, req, ret, respChan, wpc, wreq, event, rresp, wire,
                    registered, delivered, writeFailed, eofSeen, handed,
                    hactive, hpc >>

\* req.Response <- resp; return (the deferred c.mu.Unlock() runs).  The send
\* blocks while the capacity-1 channel is full.
DispatchSend ==
    /\ rpc = "deliver"
    /\ Len(respChan[rreq]) < 1
    /\ respChan' = [respChan EXCEPT ![rreq] = Append(@, rresp)]
    /\ delivered' = [delivered EXCEPT ![rreq] = @ + 1]
    /\ rreq' = 0
    /\ mu' = "free"
    /\ rpc' = "read"
    /\ rresp' = NoResp
    /\ UNCHANGED << pc, req, ret, wpc, wreq, reqMap, event, wire, registered,
                    removed, answered, resolved, writeFailed, eofSeen,
                    handed, hactive, hpc >>

\* mutant: the lookup's ok is not tested, and req.Response of the nil request
\* is dereferenced: the read loop's goroutine panics with the mutex held
DispatchDiscard_NoOkCheck ==
    /\ rpc = "dispatch"
    /\ mu = "free"
    /\ rresp.Event = ""
    /\ rresp.RequestID \notin DOMAIN reqMap
    /\ mu' = "dispatch"
    /\ rpc' = "panic"
    /\ UNCHANGED << pc, req, ret, respChan, wpc, wreq, reqMap, event, rresp,
                    rreq, wire, hist, hactive, hpc >>

\* dispatch: resp.Event == "" and the lookup misses: "Discard response"
DispatchDiscard ==
    /\ rpc = "dispatch"
    /\ mu = "free"
    /\ rresp.Event = ""
    /\ rresp.RequestID \notin DOMAIN reqMap
    /\ answered' = answered \cup RegisteredWithId(rresp.RequestID)
    /\ rpc' = "read"
    /\ rresp' = NoResp
    /\ UNCHANGED << pc, req, ret, respChan, wpc, wreq, reqMap, event, mu,
                    rreq, wire, registered, removed, delivered, resolved,
                    writeFailed, eofSeen, handed, hactive, hpc >>

\* mutant: the handler is started in a goroutine of its own (go handleFunc)
DispatchEvent_Async ==
    /\ rpc = "dispatch"
    /\ mu = "free"
    /\ rresp.Event # ""
    /\ rresp.Event \in DOMAIN event
    /\ hactive' = hactive + 1
    /\ rpc' = "read"
    /\ rresp' = NoResp
    /\ UNCHANGED << pc, req, ret, respChan, wpc, wreq, reqMap, event, mu,
                    rreq, wire, hist, hpc >>

\* dispatch: resp.Event != "" and a handler is registered: handleFunc(resp)
\* is called with the mutex held
DispatchEvent ==
    /\ rpc = "dispatch"
    /\ mu = "free"
    /\ rresp.Event # ""
    /\ rresp.Event \in DOMAIN event
    /\ mu' = "dispatch"
    /\ rpc' = "handler"
    /\ hactive' = hactive + 1
    /\ hpc' = "body"
    /\ UNCHANGED << pc, req, ret, respChan, wpc, wreq, reqMap, event, rresp,
                    rreq, wire, hist >>

\* the handler's body calls c.registerEvent: the read loop's goroutine is at
\* the c.mu.Lock() of registerEvent (a handler is code of the application)
HandlerCallsRegisterEvent ==
    /\ rpc = "handler"
    /\ hpc = "body"
    /\ hpc' = "lock"
    /\ UNCHANGED << pc, req, ret, respChan, wpc, wreq, reqMap, event, mu, rpc,
                    rresp, rreq, wire, hist, hactive >>

\* the handler returns; dispatch returns and unlocks
HandlerReturn ==
    /\ rpc = "handler"
    /\ hpc = "body"
    /\ hactive' = hactive - 1
    /\ hpc' = "none"
    /\ mu' = "free"
    /\ rpc' = "read"
    /\ rresp' = NoResp
    /\ UNCHANGED << pc, req, ret, respChan, wpc, wreq, reqMap, event, rreq,
                    wire, hist >>

\* mutant: the lookup's ok is not tested and the nil handler is called: the
\* read loop's goroutine panics with the mutex held
DispatchNoHandler_NilCall ==
    /\ rpc = "dispatch"
    /\ mu = "free"
    /\ rresp.Event # ""
    /\ rresp.Event \notin DOMAIN event
    /\ mu' = "dispatch"
    /\ rpc' = "panic"
    /\ UNCHANGED << pc, req, ret, respChan, wpc, wreq, reqMap, event, rresp,
                    rreq, wire, hist, hactive, hpc >>

\* dispatch: resp.Event != "" and no handler is registered
DispatchNoHandler ==
    /\ rpc = "dispatch"
    /\ mu = "free"
    /\ rresp.Event # ""
    /\ rresp.Event \notin DOMAIN event
    /\ rpc' = "read"
    /\ rresp' = NoResp
    /\ UNCHANGED << pc, req, ret, respChan, wpc, wreq, reqMap, event, mu,
                    rreq, wire, hist, hactive, hpc >>

\* ------------------------------------------------------------- others
\* who calls registerEvent: a thread of the application, or the handler that
\* dispatch is running on the read loop's goroutine
Callers == {"app", "handler"}

\* registerEvent(name, fn): c.mu.Lock(); c.event[name] = fn; c.mu.Unlock().
\* sync.Mutex is not reentrant: Lock waits until the mutex is free, whoever
\* holds it.
registerEvent(caller, name, fn) ==
    /\ caller = "handler" => hpc = "lock"
    /\ mu = "free"
    /\ event' = MapPut(event, name, fn)
    /\ hpc' = IF caller = "handler" THEN "body" ELSE hpc
    /\ UNCHANGED << pc, req, ret, respChan, wpc, wreq, reqMap, mu, rpc,
                    rresp, rreq, wire, hist, hactive >>

\* ------------------------------------------------------------- Next
Next ==
    \/ \E c \in Calls : ExecStart(c)
    \/ \E c \in Calls : ExecHandoff(c)
    \/ \E c \in Calls : ExecTimeoutSend(c)
    \/ \E c \in Calls : ExecRecv(c)
    \/ \E c \in Calls : ExecTimeoutRecv(c)
    \/ WriteMarshalFail
    \/ WriteMarshalOk
    \/ WriteRegister
    \/ WriteOk
    \/ WriteFail
    \/ WriteCleanup
    \/ ReadError
    \/ ReadMalformed
    \/ ReadRecord
    \/ DispatchReply
    \/ DispatchSend
    \/ DispatchDiscard
    \/ DispatchEvent
    \/ HandlerCallsRegisterEvent
    \/ HandlerReturn
    \/ DispatchNoHandler
    \/ \E caller \in Callers, n \in RegNames, fn \in Handlers :
          registerEvent(caller, n, fn)

Spec == Init /\ [][Next]_vars

\* The timers of Exec's two selects fire: time.After(c.timeout) delivers
\* after the timeout whatever the other goroutines do.
FairSpec ==
    /\ Spec
    /\ \A c \in Calls : WF_vars(ExecTimeoutSend(c))
    /\ \A c \in Calls : WF_vars(ExecTimeoutRecv(c))

\* ------------------------------------------------------------- helpers
Returned(c) == pc[c] = "done"
HasResponse(c) == Returned(c) /\ ret[c].res # << >>
OnWire(c) == \E i \in 1..Len(wire) : wire[i].call = c
InReqMap(c) == \E i \in DOMAIN reqMap : reqMap[i] = c
\* the read loop takes a step of dispatch on a message that is no event
DispatchesReplyStep == rpc = "dispatch" /\ rresp.Event = "" /\ rpc' # rpc

\* ------------------------------------------------------------- claims

\* C1: every Exec call that returns a response returns one sent in answer to
\* its own request, never a reply the remote process produced for another
\* call's request.
C1_OwnReply ==
    \A c \in Calls :
        HasResponse(c) => ret[c].res[1].ans \notin (Calls \ {c})

\* C2: a new request's id is never one still held by an entry of the
\* pending table: when the write loop is about to register a request, the
\* table has no entry under that request's id.
C2_NoIdReuse ==
    wpc = "register" => req[wreq].RequestID \notin DOMAIN reqMap

\* C3: once Exec has returned ErrTimeoutRecv the pending table no longer
\* holds the request's id, and a registered request whose call has returned
\* was removed from the table exactly once.
C3_TimeoutCleans ==
    \A c \in Calls :
        /\ (Returned(c) /\ ret[c].err = ErrTimeoutRecv)
              => req[c].RequestID \notin DOMAIN reqMap
        /\ (Returned(c) /\ c \in registered) => removed[c] = 1

\* C4: every Exec call eventually returns, whatever the write loop, the read
\* loop, the connection and the remote process do, given that its timers
\* fire.
C4_ExecReturns ==
    \A c \in Calls : (pc[c] \in {"send", "recv"}) ~> Returned(c)

C4_Witness ==
    \E c \in Calls :
        /\ Returned(c)
        /\ c \in writeFailed
        /\ eofSeen
        /\ ret[c].err = ErrTimeoutRecv

\* C5: while the bytes of a request are on the wire and no reply for its id
\* has been dispatched (and its write did not fail), the pending table maps
\* the request's id to that request.
C5_RegisteredWhileOnWire ==
    \A c \in Calls :
        (OnWire(c) /\ c \notin answered /\ c \notin writeFailed)
            => /\ req[c].RequestID \in DOMAIN reqMap
               /\ reqMap[req[c].RequestID] = c

\* C6: after a failed write the write loop has removed the request from the
\* pending table and failed the caller's reply slot with a send error, so the
\* blocked Exec call returns a send error.  (Calls that received a reply
\* before the cleanup are left out.)
C6_WriteFailureFailsCaller ==
    \A c \in writeFailed :
        (wreq # c /\ delivered[c] = 0) =>
            /\ ~InReqMap(c)
            /\ pc[c] = "recv" => respChan[c] # << >>
            /\ Returned(c) => ret[c].err = ErrSend

\* C7: after the stream has failed terminally, every Exec call that returns
\* without a reply in its slot (pending at the failure or started later)
\* returns a connection-lost error instead of running into a timeout.
C7_ConnectionLost ==
    [][ \A c \in Calls :
          ( /\ eofSeen
            /\ pc[c] \in {"send", "recv"}
            /\ respChan[c] = << >>
            /\ pc'[c] = "done" )
          => ret'[c].err = ErrConnectionLost ]_vars

\* C8: resolution is idempotent: at most one reply is ever delivered into a
\* request's reply slot, and dispatching another reply with an id that was
\* delivered and not registered again changes neither the pending table nor
\* any reply slot, and the read loop goes on.
C8_IdempotentResolution ==
    /\ [](\A c \in Calls : delivered[c] <= 1)
    /\ [][ (DispatchesReplyStep /\ rresp.RequestID \in resolved)
            => /\ reqMap' = reqMap
               /\ respChan' = respChan
               /\ delivered' = delivered
               /\ mu' = mu
               /\ rpc' = "read" ]_vars

\* a second answer to a call whose first answer was delivered is at dispatch
C8_Witness ==
    /\ rpc = "dispatch"
    /\ mu = "free"
    /\ rresp.Event = ""
    /\ rresp.RequestID \in resolved
    /\ rresp.ans \in Calls
    /\ delivered[rresp.ans] = 1

\* C9: dispatching a reply whose id matches no entry of the pending table
\* changes neither the pending table, the handler table nor any reply slot,
\* invokes no handler, and the read loop goes on to the next record.
C9_UnknownIdNoEffect ==
    [][ (DispatchesReplyStep /\ rresp.RequestID \notin DOMAIN reqMap)
          => /\ reqMap' = reqMap
             /\ event' = event
             /\ respChan' = respChan
             /\ mu' = mu
             /\ rpc' = "read" ]_vars

\* a reply with an unknown id is at dispatch while another request is pending
C9_Witness ==
    /\ rpc = "dispatch"
    /\ mu = "free"
    /\ rresp.Event = ""
    /\ rresp.RequestID \notin DOMAIN reqMap
    /\ DOMAIN reqMap # {}
    /\ \E c \in Calls : pc[c] = "recv" /\ InReqMap(c)

\* C10: a call that returned ErrTimeoutSend was never handed to the write
\* loop: its request is never registered in the pending table and never
\* written to the connection.
C10_SendTimeoutNeverOnWire ==
    \A c \in Calls :
        (Returned(c) /\ ret[c].err = ErrTimeoutSend)
            => /\ c \notin registered
               /\ ~InReqMap(c)
               /\ ~OnWire(c)
               /\ wreq # c

\* a call timed out at the handoff while the write loop was busy, and the
\* write loop has since written another request and is idle again
C10_Witness ==
    \E c \in Calls :
        /\ Returned(c)
        /\ ret[c].err = ErrTimeoutSend
        /\ wpc = "recv"
        /\ Len(wire) > 0

\* position of call c in the order of handoffs
HandoffPos(c) == CHOOSE k \in 1..Len(handed) : handed[k] = c

\* C11: requests are written in the order of their handoffs: of two requests
\* on the wire the one handed off first comes first, and each write adds one
\* whole record behind the records already written.
C11_FifoWriteOrder ==
    /\ [](\A i, j \in 1..Len(wire) :
            i < j => HandoffPos(wire[i].call) < HandoffPos(wire[j].call))
    /\ [][ wire' # wire =>
             /\ Len(wire') = Len(wire) + 1
             /\ SubSeq(wire', 1, Len(wire)) = wire
             /\ wire'[Len(wire')].call = wreq ]_vars

\* two requests, handed off one after the other, are both on the wire
C11_Witness ==
    /\ Len(wire) = 2
    /\ wire[1].call # wire[2].call
    /\ Len(handed) = 2

\* C12: events reach the handler in the order they were read: at most one
\* handler invocation is running, the read loop takes up the next record
\* only when none is running, an event whose name has a handler starts
\* exactly one invocation, and when it returns the read loop goes on to the
\* next record.
C12_EventOrder ==
    /\ [](hactive <= 1)
    /\ [][ (rpc = "read" /\ rpc' # "read") => hactive = 0 ]_vars
    /\ [][ ( /\ rpc = "dispatch"
             /\ rresp.Event # ""
             /\ rresp.Event \in DOMAIN event
             /\ rpc' # rpc )
           => (rpc' = "handler" /\ hactive' = hactive + 1) ]_vars
    /\ [][ (rpc = "handler" /\ rpc' # rpc)
           => (rpc' = "read" /\ hactive' = hactive - 1) ]_vars

\* the handler registered for "seek" is running on a "seek" event
C12_Witness ==
    /\ rpc = "handler"
    /\ hactive = 1
    /\ rresp.Event = EventSeek
    /\ EventSeek \in DOMAIN event

\* C13: dispatching an event whose name has no handler invokes no handler,
\* leaves the pending table, the handler table and the reply slots as they
\* are, releases the mutex, and the read loop goes on to the next record.
C13_UnregisteredEvent ==
    [][ ( /\ rpc = "dispatch"
          /\ rresp.Event # ""
          /\ rresp.Event \notin DOMAIN event
          /\ rpc' # rpc )
        => /\ rpc' = "read"
           /\ hactive' = hactive
           /\ reqMap' = reqMap
           /\ event' = event
           /\ respChan' = respChan
           /\ mu' = mu ]_vars

\* an "idle" event, for which nothing is registered, is at dispatch while a
\* handler for "seek" is registered and a request is pending
C13_Witness ==
    /\ rpc = "dispatch"
    /\ mu = "free"
    /\ rresp.Event = EventIdle
    /\ EventIdle \notin DOMAIN event
    /\ EventSeek \in DOMAIN event
    /\ DOMAIN reqMap # {}

\* the calls started so far carry pairwise distinct ids
DistinctIds ==
    \A c, d \in Calls :
        (c # d /\ pc[c] # "idle" /\ pc[d] # "idle")
            => req[c].RequestID # req[d].RequestID

\* C14: when the calls carry pairwise distinct ids, every call that returns a
\* response returns the reply carrying its own id, never a reply made for
\* another call, and no two calls return replies with the same id.
C14_OneToOne ==
    DistinctIds =>
        \A c \in Calls :
            HasResponse(c) =>
                /\ ret[c].res[1].RequestID = req[c].RequestID
                /\ ret[c].res[1].ans \notin (Calls \ {c})
                /\ \A d \in Calls \ {c} :
                      HasResponse(d) =>
                          ret[d].res[1].RequestID # ret[c].res[1].RequestID

\* two requests with distinct ids are on the wire; the call written second
\* has returned its own reply while the call written first still waits
C14_Witness ==
    /\ DistinctIds
    /\ Len(wire) = 2
    /\ LET first == wire[1].call
           second == wire[2].call
       IN /\ first # second
          /\ HasResponse(second)
          /\ ret[second].res[1].ans = second
          /\ pc[first] = "recv"
          /\ delivered[first] = 0
          /\ InReqMap(first)

\* C15: Exec returns either a response with a nil error, or no response
\* with ErrTimeoutSend or ErrTimeoutRecv; a reply taken from the reply slot
\* is returned as the response with a nil error, and its error field is the
\* string of the record as read.
C15_FailureClasses ==
    /\ [](\A c \in Calls :
            Returned(c) =>
                /\ \/ ret[c].res # << >> /\ ret[c].err = NoErr
                   \/ /\ ret[c].res = << >>
                      /\ ret[c].err \in {ErrTimeoutSend, ErrTimeoutRecv}
                /\ HasResponse(c)
                      => ret[c].res[1].Err = ret[c].res[1].Bytes.err)
    /\ [][ \A c \in Calls :
             (pc[c] = "recv" /\ pc'[c] = "done" /\ respChan'[c] # respChan[c])
                 => ret'[c] = [res |-> <<Head(respChan[c])>>, err |-> NoErr]
         ]_vars

\* a call returned the remote's rejection of its own command as a response
C15_Witness ==
    \E c \in Calls :
        /\ HasResponse(c)
        /\ ret[c].err = NoErr
        /\ ret[c].res[1].Err = "invalid parameter"
        /\ ret[c].res[1].ans = c

\* the record of the wire protocol for a command that is not the raw form:
\* the object with the keys command and request_id, and a newline
GenericRecord(r) ==
    <<"{", "\"command\":">> \o JsonArray(r.Command)
      \o <<",", "\"request_id\":">> \o Itoa(r.RequestID)
      \o <<"}", "\n">>

\* C16: the record written for a command ["raw", F, ...] is exactly
\* '{' F ',"request_id":' id '}' newline; for every other command it is the
\* JSON object with the keys command and request_id and one newline; in
\* both forms the request was registered under its id.
C16_RecordShape ==
    \A i \in 1..Len(wire) :
        LET r == req[wire[i].call] IN
        /\ wire[i].call \in registered
        /\ wire[i].bytes =
              IF Len(r.Command) > 1 /\ r.Command[1] = "raw"
              THEN <<"{", r.Command[2], ",", "\"request_id\":">>
                     \o Itoa(r.RequestID) \o <<"}", "\n">>
              ELSE GenericRecord(r)

\* the read loop leaves the state in which json.Unmarshal has failed
DropsMalformedStep == rpc = "decode" /\ ~rresp.Bytes.json /\ rpc' # rpc

\* C17: a record that fails to decode is dropped and the read loop goes on:
\* the step changes neither the pending table, the handler table nor any
\* reply slot, resolves no caller, invokes no handler, and leaves the read
\* loop at its next read with the connection still readable.
C17_MalformedDropped ==
    [][ DropsMalformedStep
          => /\ reqMap' = reqMap
             /\ event' = event
             /\ respChan' = respChan
             /\ ret' = ret
             /\ resolved' = resolved
             /\ delivered' = delivered
             /\ hactive' = hactive
             /\ mu' = mu
             /\ rpc' = "read"
             /\ ~eofSeen' ]_vars

\* a record has failed to decode while a request is pending and a handler
\* is registered
C17_Witness ==
    /\ rpc = "decode"
    /\ ~rresp.Bytes.json
    /\ DOMAIN reqMap # {}
    /\ DOMAIN event # {}
    /\ \E c \in Calls : pc[c] = "recv" /\ InReqMap(c)

\* C18: once the read on the connection has returned a non-recoverable
\* error the read loop has terminated: it is not at its read again.
C18_ReadErrorEndsLoop ==
    eofSeen => rpc = "exit"

\* C19: a decoded record that carries neither a request_id nor an event
\* name is routed to neither the pending table nor a handler: its dispatch
\* leaves the pending table as it is, resolves no request and delivers
\* nothing.
C19_BareRecordRoutedNowhere ==
    [][ (rpc = "dispatch" /\ rpc' # rpc
           /\ ~rresp.Bytes.hasId /\ rresp.Event = "")
          => /\ reqMap' = reqMap
             /\ resolved' = resolved
             /\ rpc' = "read" ]_vars

\* C20: while an event handler is executing in the read loop, the write
\* loop can register the request it has been handed (the table lock is
\* held for a table mutation only).
C20_HandlerDoesNotDelayWrite ==
    (rpc = "handler" /\ wpc = "register") => ENABLED WriteRegister

\* C21: the send into a reply slot inside dispatch never blocks: every
\* capacity-1 reply slot holds at most one reply, the slot of the request
\* dispatch is about to deliver to is empty (also when its caller has timed
\* out and reads no more), and a request object that is registered in the
\* pending table was never registered before.
C21_DeliveryNeverBlocks ==
    /\ [](\A c \in Calls : Len(respChan[c]) <= 1)
    /\ [](rpc = "deliver" => Len(respChan[rreq]) = 0)
    /\ [][ (wpc = "register" /\ wpc' # wpc)
             => wreq \notin registered ]_vars

\* a reply was delivered into the slot of a call that had timed out
\* waiting for it and reads its slot no more
C21_Witness ==
    \E c \in Calls :
        /\ Returned(c)
        /\ ret[c].err = ErrTimeoutRecv
        /\ delivered[c] = 1
        /\ Len(respChan[c]) = 1
        /\ rpc = "read"

\* C22: event dispatch is deadlock-free: when the handler that dispatch is
\* running has called registerEvent, the call can complete (so that the
\* handler returns and the read loop and the write loop go on).
C22_HandlerCallCompletes ==
    hpc = "lock"
        => ENABLED (\E n \in RegNames, fn \in Handlers :
                        registerEvent("handler", n, fn))

====
